---- MODULE Spec2Model ----
(***************************************************************************)
(* Model of the signup-sequencer Ethereum layer.                           *)
(*                                                                         *)
(*   src/src/ethereum/mod.rs                   Ethereum: new,              *)
(*                                             fetch_events,               *)
(*                                             insert_identity             *)
(*   src/src/ethereum/write_oz/openzeppelin.rs OzRelay: send_transaction,  *)
(*                                             mine_transaction_id, query, *)
(*                                             list_transactions,          *)
(*                                             send_oz_transaction,        *)
(*                                             get_client                  *)
(*                                                                         *)
(* Every await of the source is a step boundary: an action is the code     *)
(* between two awaits.  The node, the relay service and the identity       *)
(* provider are the environment; their answers are drawn with \E.          *)
(***************************************************************************)
EXTENDS Integers, Sequences, FiniteSets, TLC

\* ------------------------------------------------------------- bounds
NumCalls == 2          \* insert_identity calls in one run, concurrent or not
MaxStartNonce == 1     \* remote account nonce at construction: 0..MaxStartNonce
MaxCommitment == 1     \* commitments 0..MaxCommitment
MaxBlock == 1          \* starting_block 0..MaxBlock
MaxLogs == 2           \* log records in one query result
WordMax == 3           \* largest value of a log word (U256, scaled down)
FieldOrder == 2        \* order of the field Hash reduces into (scaled down)
UsizeMax == 2          \* usize::MAX (scaled down)

TickSecs == 60         \* seconds the clock advances in one step
MaxTicks == 1          \* steps of the clock in one run
MaxExpiresIn == 120    \* longest token life the identity provider grants
MaxPolls == 2          \* status queries of one call
MaxAuth == 2           \* authentication exchanges in one run

\* ---------------------------------------------------- program constants
WordBytes == 32        \* let mut bytes = [0u8; 32]
SendTimeoutSecs == 60  \* send_timeout: Duration::from_secs(60)
GasLimit == 1000000    \* tx.set_gas(1_000_000)

Calls == 1..NumCalls
Commitments == 0..MaxCommitment
Blocks == 0..MaxBlock
Words == 0..WordMax

NoValue == "none"
NoReply == [ok |-> FALSE, logs |-> <<>>]

VARIABLES
    \* ---- mod.rs: struct Ethereum and its provider stack
    mock,          \* Ethereum.mock
    eip1559,       \* Ethereum.eip1559
    built,         \* position of Ethereum::new
    remoteNonce,   \* the node's transaction count of the signing account
    nonce,         \* counter of the nonce manager layer of the provider
    ipc,           \* insert_identity: position of each call
    icommit,       \* insert_identity: the caller's commitment
    inonce,        \* insert_identity: nonce reserved for the caller's transaction
    ires,          \* insert_identity: the caller's result
    ihandle,       \* insert_identity: what the node answered to the call
    handed,        \* transactions handed to the network layer, in order
    io,            \* network round trips made so far: [op, by]
    fpc,           \* fetch_events: position
    fstart,        \* fetch_events: the starting_block argument
    fquery,        \* fetch_events: the log filters queried, in order
    freply,        \* fetch_events: the node's answer to the query
    fres           \* fetch_events: the result

    \* ---- write_oz/openzeppelin.rs: OzRelay and its process-wide state
VARIABLES
    clock,         \* chrono::Utc::now().timestamp(), in seconds
    clients,       \* CLIENTS: api key -> ExpiringClient
    lock,          \* the Mutex around CLIENTS: the call holding it
    exchanges,     \* the authentication exchanges made so far, in order
    jobs,          \* the relay service's transactions, in creation order
    tx_count,      \* TX_COUNT: bytes4 label -> count
    send           \* the send_transaction calls: locals and position

relayVars == <<clock, clients, lock, exchanges, jobs, tx_count, send>>

ethVars == <<mock, eip1559, built, remoteNonce, nonce, ipc, icommit, inonce,
             ires, ihandle, handed, io, fpc, fstart, fquery, freply, fres>>

vars == <<ethVars, relayVars>>

\* ------------------------------------------- relay: values and start

Sends == {"s1", "s2"}            \* the send_transaction calls of one run
ApiKeys == {"key1", "key2"}      \* OzRelay.api_key
NoEntry == [client |-> 0, expiration_time |-> 0]
ExpiresIn == {TickSecs, MaxExpiresIn}   \* res.expires_in(): one step of the clock, or longer

\* tx.data(): Option<&Bytes>; the bytes start with a 4-byte selector.
NoData == [some |-> FALSE, bytes |-> <<>>]
DataA == [some |-> TRUE, bytes |-> <<1, 2, 3, 4, 10>>]
DataB == [some |-> TRUE, bytes |-> <<1, 2, 3, 4, 11>>]
TxData == {NoData, DataA, DataB}

\* SubmittedTransaction.status as the relay reports it; NoValue is an absent
\* field.
Statuses == {"pending", "mined", "confirmed", "failed", NoValue}

\* A mine_transaction_id that keeps polling a failed transaction.
TerminalWithoutFailed(status) == status = "mined" \/ status = "confirmed"

\* if status == "mined" || status == "confirmed" || status == "failed"
Terminal(status) == status = "mined" \/ status = "confirmed" \/ status = "failed"

\* The locals of one send_transaction call, with the awaits it is at:
\*   op  the relay operation in progress: "list" (list_transactions),
\*       "send" (send_oz_transaction) or "query" (query, from
\*       mine_transaction_id)
\*   pc  "lock" (CLIENTS.lock().await), "auth" (auth(input).await, holding
\*       the lock), "http" (the request's send().await), "sleep", "done"
\* and what the call has seen: listed (how many transactions the list held),
\* seen (the statuses queried), mined (the status of the record
\* mine_transaction_id returned), post (the creation request: "inflight",
\* "handled"), prior (the calls that had returned when this one
\* started), deadline (when send_timeout runs out, kept until the first
\* status of the transaction is seen), reply (the HTTP response to the
\* creation request).  A local that is out of scope holds its idle value.
IdleSend ==
    [pc |-> "idle", op |-> NoValue, data |-> NoData, is_retry |-> FALSE,
     api_key |-> "key1", now |-> 0, client |-> 0, tx_id |-> 0,
     deadline |-> 0, seen |-> <<>>,
     mined |-> NoValue, res |-> NoValue, post |-> NoValue, listed |-> -1,
     prior |-> {}, reply |-> NoValue]

\* u32::from_be_bytes of the first four bytes, 0 without data.  The label of
\* the counter is this number formatted {:8x}, one label per number.
Bytes4(data) ==
    IF ~data.some THEN 0
    ELSE ((data.bytes[1] * 256 + data.bytes[2]) * 256 + data.bytes[3]) * 256
             + data.bytes[4]

Labels == {Bytes4(d) : d \in TxData}

\* A counter that drops the increment.
IncDropped(counter, label) == counter

\* TX_COUNT.with_label_values(&[&bytes4]).inc(): an atomic add on the
\* label's counter.
Inc(counter, label) == [counter EXCEPT ![label] = @ + 1]

RelayAtRest ==
    /\ clock = 0
    /\ clients = [k \in ApiKeys |-> NoEntry]
    /\ lock = NoValue
    /\ exchanges = <<>>
    /\ jobs = <<>>
    /\ tx_count = [l \in Labels |-> 0]
    /\ send = [p \in Sends |-> IdleSend]

EthereumAtRest ==
    /\ mock = FALSE
    /\ eip1559 = TRUE
    /\ built = "get_chainid"
    /\ remoteNonce = 0
    /\ nonce = 0
    /\ ipc = [t \in Calls |-> "idle"]
    /\ icommit = [t \in Calls |-> 0]
    /\ inonce = [t \in Calls |-> 0]
    /\ ires = [t \in Calls |-> NoValue]
    /\ ihandle = [t \in Calls |-> NoValue]
    /\ handed = <<>>
    /\ io = {}
    /\ fpc = "idle"
    /\ fstart = 0
    /\ fquery = <<>>
    /\ freply = NoReply
    /\ fres = [kind |-> NoValue, events |-> <<>>]

\* ----------------------------------------------------------- get_client

\* A get_client that takes every cached client for expired.
TokenStale(entry, now) == FALSE

\* if let Some(client) = clients.get(api_key) { if now < client.expiration_time
TokenValid(entry, now) == entry # NoEntry /\ now < entry.expiration_time

\* The client is in hand: the operation sends its request and awaits the
\* response.  send_oz_transaction's request is the creation request.
Request(rec) ==
    [rec EXCEPT !.pc = "http", !.now = 0,
                !.post = IF rec.op = "send" THEN "inflight" ELSE @]

\* send_transaction returns: its locals go out of scope.  What stays is what
\* the caller knows (the arguments, the result) and a creation request that
\* may still be in flight.
Return(rec) ==
    [rec EXCEPT !.pc = "done", !.op = NoValue, !.now = 0, !.client = 0,
                !.deadline = 0, !.tx_id = 0, !.listed = -1]

\* An operation's error, as send_transaction returns it: TxError::Send(error)
\* from list_transactions and send_oz_transaction directly, and from query
\* through mine_transaction_id.
Failed(rec, error) ==
    [Return(rec) EXCEPT !.res = error]

\* A get_client that gives the lock back between the lookup and the insert.
GuardDropped(p) == NoValue

\* let mut clients = CLIENTS.lock().await: the guard lives to the end of
\* get_client, so the lock is the call's while auth(input) is awaited.
Guard(p) == p

\* get_client with the lock held: a valid cached client is returned at once;
\* otherwise the exchange starts, and the lock stays held across its await.
GetClientLocked(p, rec) ==
    LET entry == clients[rec.api_key]
    IN IF TokenValid(entry, rec.now)
       THEN /\ send' = [send EXCEPT ![p] = Request([rec EXCEPT !.client = entry.client])]
            /\ lock' = NoValue
            /\ UNCHANGED exchanges
       ELSE /\ Len(exchanges) < MaxAuth
            /\ send' = [send EXCEPT ![p] = [rec EXCEPT !.pc = "auth"]]
            /\ lock' = Guard(p)
            /\ exchanges' = Append(exchanges,
                   [api_key |-> rec.api_key, now |-> rec.now,
                    result |-> "pending", expires_in |-> 0])

\* get_client from its call: the clock is read, then the lock is awaited; a
\* free lock is taken without suspending.  Any waiter may get a free lock:
\* the order in which tokio's Mutex serves its waiters is not relied on.
GetClient(p, rec) ==
    IF lock = NoValue
    THEN GetClientLocked(p, [rec EXCEPT !.now = clock])
    ELSE /\ send' = [send EXCEPT ![p] = [rec EXCEPT !.now = clock, !.pc = "lock"]]
         /\ UNCHANGED <<lock, exchanges>>

\* A timeout that also wraps the first status query of a new transaction.
UnderTimeoutWithFirstStatus(rec) ==
    rec.op = "send" \/ (rec.op = "query" /\ rec.post = "handled" /\ rec.seen = <<>>)

\* A timeout that wraps the polling as well.
UnderTimeoutWithPolling(rec) == rec.op \in {"send", "query"}

\* What timeout(self.send_timeout, ..) wraps: self.send_oz_transaction(..)
UnderTimeout(rec) == rec.op = "send"

\* timeout(self.send_timeout, ..): the wrapped future runs only before the
\* deadline.
Live(rec) == UnderTimeout(rec) => clock < rec.deadline

\* CLIENTS.lock().await returns
AcquireLock(p) ==
    /\ send[p].pc = "lock"
    /\ lock = NoValue
    /\ Live(send[p])
    /\ GetClientLocked(p, send[p])
    /\ UNCHANGED <<ethVars, clock, clients, jobs, tx_count>>

\* The exchange's record, closed with its result.
Closed(result, expires_in) ==
    [exchanges EXCEPT ![Len(exchanges)] =
        [@ EXCEPT !.result = result, !.expires_in = expires_in]]

\* A get_client that drops the key's entry when the refresh fails.
Evicted(entries, api_key) == [entries EXCEPT ![api_key] = NoEntry]

\* The cache after an error in get_client: every `?` between the lookup and
\* clients.insert returns with the map as it was.
NotInserted(entries, api_key) == entries

\* auth(input).await returns: on success the client is built and stored under
\* the api key with expiration_time = now + expires_in; every error returns
\* before the insert.  The lock is released on return.
AuthReturns(p) ==
    /\ send[p].pc = "auth"
    /\ Live(send[p])
    /\ lock' = NoValue
    /\ \/ \E expires_in \in ExpiresIn :
            /\ clients' = [clients EXCEPT ![send[p].api_key] =
                              [client |-> Len(exchanges),
                               expiration_time |-> send[p].now + expires_in]]
            /\ exchanges' = Closed("ok", expires_in)
            /\ send' = [send EXCEPT ![p] =
                           Request([@ EXCEPT !.client = Len(exchanges)])]
       \/ /\ exchanges' = Closed("failed", 0)
          /\ send' = [send EXCEPT ![p] = Failed(@, "Send(Authentication)")]
          /\ clients' = NotInserted(clients, send[p].api_key)
    /\ UNCHANGED <<ethVars, clock, jobs, tx_count>>

\* ------------------------------------------- OzRelay::send_transaction

\* Lines 197-207: the counter of the call's bytes4 is incremented, then
\* send_oz_transaction starts under the timeout; it begins with get_client.
\* data[..4] panics on data shorter than four bytes.
StartSend(p, rec) ==
    IF rec.data.some /\ Len(rec.data.bytes) < 4
    THEN /\ send' = [send EXCEPT ![p] = [Return(rec) EXCEPT !.res = "panic"]]
         /\ UNCHANGED <<tx_count, lock, exchanges>>
    ELSE /\ tx_count' = Inc(tx_count, Bytes4(rec.data))
         /\ GetClient(p, [rec EXCEPT !.op = "send",
                                     !.deadline = clock + SendTimeoutSecs])

\* The calls that have returned.
Returned == {q \in Sends : send[q].pc = "done"}

\* send_transaction(tx, is_retry) up to its first await: with is_retry,
\* list_transactions (which begins with get_client); without, the send.
Submit(p, data, is_retry, api_key) ==
    /\ send[p].pc = "idle"
    /\ LET rec == [send[p] EXCEPT !.data = data, !.is_retry = is_retry,
                                  !.api_key = api_key, !.prior = Returned]
       IN IF is_retry
          THEN /\ GetClient(p, [rec EXCEPT !.op = "list"])
               /\ UNCHANGED tx_count
          ELSE StartSend(p, rec)
    /\ UNCHANGED <<ethVars, clock, clients, jobs>>

\* (Some(a), Some(b)) => a == b, _ => false
SameData(job, data) == job.data.some /\ data.some /\ job.data.bytes = data.bytes

\* A send_transaction that never finds a listed transaction.
FindNothing(listed, data) == 0

\* existing_transactions.iter().find(..): the first listed transaction with
\* the call's data; 0 when there is none.
FindExisting(listed, data) ==
    LET hits == {i \in 1..Len(listed) : SameData(listed[i], data)}
    IN IF hits = {} THEN 0 ELSE CHOOSE i \in hits : \A j \in hits : i <= j

\* What the relay can answer to GET /txs.
ListReplies == {"fault", "garbled", "items"}

\* list_transactions' request returns.  A transport fault is
\* Error::Authentication, an unparsable body Error::UnknownResponse; with the
\* list, a transaction with the call's data is mined instead of sending.
ListReturns(p) ==
    /\ send[p].pc = "http"
    /\ send[p].op = "list"
    /\ \E reply \in ListReplies :
          CASE reply = "fault" ->
                 /\ send' = [send EXCEPT ![p] = Failed(@, "Send(Authentication)")]
                 /\ UNCHANGED <<lock, exchanges, tx_count>>
            [] reply = "garbled" ->
                 /\ send' = [send EXCEPT ![p] = Failed(@, "Send(UnknownResponse)")]
                 /\ UNCHANGED <<lock, exchanges, tx_count>>
            [] OTHER ->
                 LET rec == [send[p] EXCEPT !.listed = Len(jobs), !.client = 0]
                     hit == FindExisting(jobs, rec.data)
                 IN IF hit # 0
                    THEN /\ GetClient(p, [rec EXCEPT !.op = "query",
                                                     !.tx_id = jobs[hit].transaction_id])
                         /\ UNCHANGED tx_count
                    ELSE StartSend(p, rec)
    /\ UNCHANGED <<ethVars, clock, clients, jobs>>

\* The caller's transaction: the call to the identity manager, no value, the
\* caller's own gas limit (0 stands for any), the data.
CallerTx(data) ==
    [to |-> "identity_manager", value |-> 0, gas |-> 0, data |-> data]

\* A send_transaction that leaves the caller's gas limit in place.
KeepGas(tx) == tx

\* let mut tx = tx.clone(); tx.set_gas(1_000_000);
SetGas(tx) == [tx EXCEPT !.gas = GasLimit]

\* let api_tx = Transaction { to: tx.to(), value: tx.value(),
\*                            gas_limit: tx.gas(), data: tx.data() }
ApiTx(tx) ==
    [to |-> tx.to, value |-> tx.value, gas_limit |-> tx.gas, data |-> tx.data]

\* The relay accepts a creation request: a new transaction with the next id
\* and the fields of the request's body.
Created(p) ==
    LET api_tx == ApiTx(SetGas(CallerTx(send[p].data)))
    IN Append(jobs, [transaction_id |-> Len(jobs) + 1, by |-> p,
                     to |-> api_tx.to, value |-> api_tx.value,
                     gas_limit |-> api_tx.gas_limit, data |-> api_tx.data])

\* What can come back for POST /txs:
\*   "ok"              200 with a transactionId; the transaction exists
\*   "ok_garbled"      200 with a body that is not JSON
\*   "ok_no_id"        200 with JSON that has no transactionId
\*   "accepted_not_ok" a success status other than 200; the transaction exists
\*   "rejected"        an error status; no transaction
\*   "fault"           a transport fault before the relay saw the request
\*   "fault_accepted"  a transport fault after the relay accepted the request
PostReplies == {"ok", "ok_garbled", "ok_no_id", "accepted_not_ok", "rejected",
                "fault", "fault_accepted"}

Accepting == {"ok", "accepted_not_ok", "fault_accepted"}

\* The HTTP response the call got: none with a transport fault.
Response(reply) == IF reply \in {"fault", "fault_accepted"} THEN NoValue ELSE reply

\* A send_oz_transaction with one error for every reply.
PostErrorAuthentication(reply) == "Send(Authentication)"

\* send_oz_transaction's result for a reply other than "ok".
PostError(reply) ==
    IF reply \in {"ok_garbled", "ok_no_id"}
    THEN "Send(UnknownResponse)"
    ELSE "Send(Authentication)"

\* send_oz_transaction's request returns before the deadline.  With the id,
\* send_transaction goes on to mine_transaction_id, whose query begins with
\* get_client.
PostReturns(p) ==
    /\ send[p].pc = "http"
    /\ send[p].op = "send"
    /\ Live(send[p])
    /\ \E reply \in PostReplies :
          /\ jobs' = IF reply \in Accepting THEN Created(p) ELSE jobs
          /\ IF reply = "ok"
             THEN GetClient(p, [send[p] EXCEPT !.op = "query",
                                               !.reply = Response(reply),
                                               !.post = "handled",
                                               !.client = 0,
                                               !.tx_id = Len(jobs) + 1])
             ELSE /\ send' = [send EXCEPT ![p] =
                                 Failed([@ EXCEPT !.post = "handled",
                                                  !.reply = Response(reply)],
                                        PostError(reply))]
                  /\ UNCHANGED <<lock, exchanges>>
    /\ UNCHANGED <<ethVars, clock, clients, tx_count>>

\* A timeout reported as the error of the request it cut off.
TimeoutAsAuthentication == "Send(Authentication)"

\* map_err(|elapsed| TxError::SendTimeout)
TimeoutError == "SendTimeout"

\* The deadline passes with send_oz_transaction unfinished: the future is
\* dropped where it stands (a held lock is released, a request in flight
\* stays in flight) and send_transaction returns the timeout error.
Timeout(p) ==
    /\ UnderTimeout(send[p])
    /\ send[p].pc \in {"lock", "auth", "http"}
    /\ clock >= send[p].deadline
    /\ send' = [send EXCEPT ![p] = [Return(@) EXCEPT !.res = TimeoutError]]
    /\ lock' = IF lock = p THEN NoValue ELSE lock
    /\ exchanges' = IF send[p].pc = "auth" THEN Closed("cancelled", 0) ELSE exchanges
    /\ UNCHANGED <<ethVars, clock, clients, jobs, tx_count>>

\* The relay handles a creation request whose sender has stopped waiting.
RelayHandlesAbandoned(p) ==
    /\ send[p].pc = "done"
    /\ send[p].post = "inflight"
    /\ \E accepted \in BOOLEAN : jobs' = IF accepted THEN Created(p) ELSE jobs
    /\ send' = [send EXCEPT ![p] = [@ EXCEPT !.post = "handled"]]
    /\ UNCHANGED <<ethVars, clock, clients, lock, exchanges, tx_count>>

\* ----------------------------------------- OzRelay::mine_transaction_id

\* What can come back for GET /txs/{id}: a fault, an unparsable body, or a
\* record with some status.
StatusReplies == {"fault", "garbled"} \cup Statuses

\* The replies that end the polling.
Final == {r \in StatusReplies : r \in {"fault", "garbled", NoValue} \/ Terminal(r)}

\* query's request returns, and mine_transaction_id looks at the status: an
\* error of query is TxError::Send, an absent status TxError::Dropped, a
\* terminal status returns the record (send_transaction then returns its
\* receipt), any other status sleeps five seconds and queries again.
StatusReturns(p) ==
    /\ send[p].pc = "http"
    /\ send[p].op = "query"
    /\ \E reply \in StatusReplies :
          /\ Len(send[p].seen) + 1 = MaxPolls => reply \in Final
          /\ send' = [send EXCEPT ![p] =
             CASE reply = "fault" -> Failed(@, "Send(Authentication)")
               [] reply = "garbled" -> Failed(@, "Send(UnknownResponse)")
               [] reply = NoValue ->
                    [Return(@) EXCEPT !.seen = Append(@, reply), !.res = "Dropped"]
               [] Terminal(reply) ->
                    [Return(@) EXCEPT !.seen = Append(@, reply), !.mined = reply,
                                      !.res = "Receipt"]
               [] OTHER ->
                    [@ EXCEPT !.seen = Append(@, reply), !.pc = "sleep",
                              !.client = 0, !.deadline = 0]]
    /\ UNCHANGED <<ethVars, clock, clients, lock, exchanges, jobs, tx_count>>

\* tokio::time::sleep(..).await returns; the loop queries again.  The five
\* seconds are shorter than a step of the clock, so the sleep can end at any
\* reading of it.
Wake(p) ==
    /\ send[p].pc = "sleep"
    /\ GetClient(p, send[p])
    /\ UNCHANGED <<ethVars, clock, clients, jobs, tx_count>>

\* Time passes.
Tick ==
    /\ clock + TickSecs <= MaxTicks * TickSecs
    /\ clock' = clock + TickSecs
    /\ UNCHANGED <<ethVars, clients, lock, exchanges, jobs, tx_count, send>>

\* The arguments of the calls: s1 is a first attempt, with the first key and
\* the first data; s2 is any call, before, during or after it.
KeysOf(p) == IF p = "s1" THEN {"key1"} ELSE ApiKeys
DataOf(p) == IF p = "s1" THEN {DataA} ELSE TxData
RetryOf(p) == IF p = "s1" THEN {FALSE} ELSE BOOLEAN

InitRelay == RelayAtRest /\ EthereumAtRest

NextRelay ==
    \/ \E p \in Sends :
          \E d \in DataOf(p), r \in RetryOf(p), k \in KeysOf(p) : Submit(p, d, r, k)
    \/ \E p \in Sends : AcquireLock(p)
    \/ \E p \in Sends : AuthReturns(p)
    \/ \E p \in Sends : ListReturns(p)
    \/ \E p \in Sends : PostReturns(p)
    \/ \E p \in Sends : Timeout(p)
    \/ \E p \in Sends : RelayHandlesAbandoned(p)
    \/ \E p \in Sends : StatusReturns(p)
    \/ \E p \in Sends : Wake(p)
    \/ Tick

SpecRelay == InitRelay /\ [][NextRelay]_vars

\* ------------------------------------------------------- Ethereum::new

InitEthereum ==
    /\ mock \in BOOLEAN
    /\ eip1559 \in BOOLEAN
    /\ built = "get_chainid"
    /\ remoteNonce \in 0..MaxStartNonce
    /\ nonce = 0
    /\ ipc = [t \in Calls |-> "idle"]
    /\ icommit = [t \in Calls |-> 0]
    /\ inonce = [t \in Calls |-> 0]
    /\ ires = [t \in Calls |-> NoValue]
    /\ ihandle = [t \in Calls |-> NoValue]
    /\ handed = <<>>
    /\ io = {}
    /\ fpc = "idle"
    /\ fstart = 0
    /\ fquery = <<>>
    /\ freply = NoReply
    /\ fres = [kind |-> NoValue, events |-> <<>>]
    /\ RelayAtRest

\* provider.get_chainid().await?
NewGetChainId ==
    /\ built = "get_chainid"
    /\ io' = io \cup {[op |-> "eth_chainId", by |-> "new"]}
    /\ \E ok \in BOOLEAN : built' = IF ok THEN "get_block_number" ELSE "failed"
    /\ UNCHANGED <<relayVars, mock, eip1559, remoteNonce, nonce, ipc, icommit, inonce,
                   ires, ihandle, handed, fpc, fstart, fquery, freply, fres>>

\* provider.get_block_number().await?
NewGetBlockNumber ==
    /\ built = "get_block_number"
    /\ io' = io \cup {[op |-> "eth_blockNumber", by |-> "new"]}
    /\ \E ok \in BOOLEAN : built' = IF ok THEN "signer" ELSE "failed"
    /\ UNCHANGED <<relayVars, mock, eip1559, remoteNonce, nonce, ipc, icommit, inonce,
                   ires, ihandle, handed, fpc, fstart, fquery, freply, fres>>

\* The nonce manager layer as section 3 of the specification describes it:
\* the counter starts at the remote account nonce when the pipeline is built.
NonceManagerNew == remoteNonce

\* ... and every reservation takes the counter's value and advances it by
\* one, atomically.
NonceManagerNext(n) == n + 1

\* SignerMiddleware::new, NonceManagerMiddleware::new, Semaphore::new, Ok(Self)
NewProviderStack ==
    /\ built = "signer"
    /\ nonce' = NonceManagerNew
    /\ io' = io \cup {[op |-> "eth_getTransactionCount", by |-> "new"]}
    /\ built' = "ready"
    /\ UNCHANGED <<relayVars, mock, eip1559, remoteNonce, ipc, icommit, inonce, ires,
                   ihandle, handed, fpc, fstart, fquery, freply, fres>>

\* ------------------------------------------- Ethereum::insert_identity

\* if self.mock { return Ok(()) }; otherwise build the contract call
InsertIdentity(t, commitment) ==
    /\ built = "ready"
    /\ ipc[t] = "idle"
    /\ icommit' = [icommit EXCEPT ![t] = commitment]
    /\ IF mock
       THEN /\ ires' = [ires EXCEPT ![t] = "Ok"]
            /\ ipc' = [ipc EXCEPT ![t] = "done"]
       ELSE /\ ipc' = [ipc EXCEPT ![t] = "send_transaction"]
            /\ UNCHANGED ires
    /\ UNCHANGED <<relayVars, mock, eip1559, built, remoteNonce, nonce, inonce, ihandle,
                   handed, io, fpc, fstart, fquery, freply, fres>>

\* tx.tx when eip1559, tx.legacy().tx otherwise
FeeMode == IF eip1559 THEN "eip1559" ELSE "legacy"

\* self.provider.send_transaction(tx, None), first half: the signing pipeline
\* reserves the next nonce for the transaction.
SignTransaction(t) ==
    /\ ipc[t] = "send_transaction"
    /\ inonce' = [inonce EXCEPT ![t] = nonce]
    /\ nonce' = NonceManagerNext(nonce)
    /\ ipc' = [ipc EXCEPT ![t] = "broadcast"]
    /\ UNCHANGED <<relayVars, mock, eip1559, built, remoteNonce, icommit, ires, ihandle,
                   handed, io, fpc, fstart, fquery, freply, fres>>

\* Variant: the call sends the transaction in both fee formats.
TransactionsInBothFeeModes(t) ==
    <<[by |-> t, nonce |-> inonce[t], fee |-> "eip1559", data |-> icommit[t]],
      [by |-> t, nonce |-> inonce[t], fee |-> "legacy", data |-> icommit[t]]>>

\* The transactions one insert_identity call hands to the network layer.
Transactions(t) ==
    <<[by |-> t, nonce |-> inonce[t], fee |-> FeeMode, data |-> icommit[t]]>>

\* Variant: a faulted broadcast is sent once more before the error is returned.
BroadcastWithRetry(t) ==
    /\ ipc[t] = "broadcast"
    /\ io' = io \cup {[op |-> "eth_sendRawTransaction", by |-> "insert_identity"]}
    /\ \E ok \in BOOLEAN :
          IF ok
          THEN /\ handed' = handed \o Transactions(t)
               /\ ipc' = [ipc EXCEPT ![t] = "pending_tx"]
               /\ UNCHANGED <<ires, ihandle>>
          ELSE /\ handed' = handed \o Transactions(t) \o Transactions(t)
               /\ ipc' = [ipc EXCEPT ![t] = "done"]
               /\ ihandle' = [ihandle EXCEPT ![t] = "broadcast_fault"]
               /\ ires' = [ires EXCEPT ![t] = "SendFailed"]
    /\ UNCHANGED <<relayVars, mock, eip1559, built, remoteNonce, nonce, icommit, inonce,
                   fpc, fstart, fquery, freply, fres>>

\* self.provider.send_transaction(tx, None).await?, second half: the signed
\* transaction goes to the node; a fault is returned to the caller by `?`.
Broadcast(t) ==
    /\ ipc[t] = "broadcast"
    /\ handed' = handed \o Transactions(t)
    /\ io' = io \cup {[op |-> "eth_sendRawTransaction", by |-> "insert_identity"]}
    /\ \E ok \in BOOLEAN :
          IF ok
          THEN /\ ipc' = [ipc EXCEPT ![t] = "pending_tx"]
               /\ UNCHANGED <<ires, ihandle>>
          ELSE /\ ipc' = [ipc EXCEPT ![t] = "done"]
               /\ ihandle' = [ihandle EXCEPT ![t] = "broadcast_fault"]
               /\ ires' = [ires EXCEPT ![t] = "SendFailed"]
    /\ UNCHANGED <<relayVars, mock, eip1559, built, remoteNonce, nonce, icommit, inonce,
                   fpc, fstart, fquery, freply, fres>>

\* What the pending-transaction handle can resolve to.
Resolutions == {"receipt", "no_receipt", "fault"}

\* Variant: the receipt is not inspected.
InsertOutcomeIgnoringReceipt(resolved) ==
    IF resolved = "fault" THEN "SendFailed" ELSE "Ok"

\* pending_tx.await.map_err(..)?; if receipt.is_none() { Err(dropped) }; Ok(())
InsertOutcome(resolved) ==
    CASE resolved = "fault" -> "SendFailed"
      [] resolved = "no_receipt" -> "Dropped"
      [] OTHER -> "Ok"

AwaitInclusion(t) ==
    /\ ipc[t] = "pending_tx"
    /\ io' = io \cup {[op |-> "eth_getTransactionReceipt", by |-> "insert_identity"]}
    /\ \E resolved \in Resolutions :
          /\ ihandle' = [ihandle EXCEPT ![t] = resolved]
          /\ ires' = [ires EXCEPT ![t] = InsertOutcome(resolved)]
    /\ ipc' = [ipc EXCEPT ![t] = "done"]
    /\ UNCHANGED <<relayVars, mock, eip1559, built, remoteNonce, nonce, icommit, inonce,
                   handed, fpc, fstart, fquery, freply, fres>>

\* ---------------------------------------------- Ethereum::fetch_events

\* event.leaf.to_big_endian(&mut bytes): the word as WordBytes bytes, most
\* significant first.
RECURSIVE ToBigEndian(_, _)
ToBigEndian(x, n) ==
    IF n = 0 THEN <<>> ELSE Append(ToBigEndian(x \div 256, n - 1), x % 256)

\* Hash::from_be_bytes_mod_order(&bytes): the big-endian value of the bytes,
\* reduced modulo the order of the field.
RECURSIVE FromBeBytesModOrder(_)
FromBeBytesModOrder(bytes) ==
    IF bytes = <<>> THEN 0
    ELSE LET n == Len(bytes)
         IN (FromBeBytesModOrder(SubSeq(bytes, 1, n - 1)) * 256 + bytes[n])
                % FieldOrder

\* event.leaf_index.as_usize() panics on a value that does not fit usize.
FitsUsize(x) == x <= UsizeMax

\* (event.leaf_index.as_usize(), Hash::from_be_bytes_mod_order(&bytes))
Insertion(event) ==
    [leaf_index |-> event.leaf_index,
     commitment |-> FromBeBytesModOrder(ToBigEndian(event.leaf, WordBytes))]

\* Variant: the result is collected in reverse.
InsertionsReversed(events) ==
    [i \in 1..Len(events) |-> Insertion(events[Len(events) + 1 - i])]

\* events.iter().map(..).collect()
Insertions(events) == [i \in 1..Len(events) |-> Insertion(events[i])]

LogRecords == [leaf : Words, leaf_index : Words]

\* The sequences of at most n log records.
RECURSIVE LogSeqs(_)
LogSeqs(n) ==
    IF n = 0 THEN {<<>>}
    ELSE LET shorter == LogSeqs(n - 1)
         IN shorter \cup {Append(s, r) : s \in {q \in shorter : Len(q) = n - 1},
                                         r \in LogRecords}

\* Variant: fetch_events without the mock check.
FetchEventsIgnoringMock(starting_block) ==
    /\ built = "ready"
    /\ fpc = "idle"
    /\ fstart' = starting_block
    /\ fquery' = Append(fquery, [from_block |-> starting_block,
                                  to_block |-> NoValue])
    /\ io' = io \cup {[op |-> "eth_getLogs", by |-> "fetch_events"]}
    /\ fpc' = "query"
    /\ UNCHANGED <<relayVars, mock, eip1559, built, remoteNonce, nonce, ipc, icommit,
                   inonce, ires, ihandle, handed, freply, fres>>

\* if self.mock { return Ok(vec![]) }; otherwise build the filter and query
FetchEvents(starting_block) ==
    /\ built = "ready"
    /\ fpc = "idle"
    /\ fstart' = starting_block
    /\ IF mock
       THEN /\ fres' = [kind |-> "Ok", events |-> <<>>]
            /\ fpc' = "done"
            /\ UNCHANGED <<fquery, io>>
       ELSE /\ fquery' = Append(fquery, [from_block |-> starting_block,
                                         to_block |-> NoValue])
            /\ io' = io \cup {[op |-> "eth_getLogs", by |-> "fetch_events"]}
            /\ fpc' = "query"
            /\ UNCHANGED fres
    /\ UNCHANGED <<relayVars, mock, eip1559, built, remoteNonce, nonce, ipc, icommit,
                   inonce, ires, ihandle, handed, freply>>

\* What the node can answer to the log query.
QueryReplies ==
    {[ok |-> TRUE, logs |-> l] : l \in LogSeqs(MaxLogs)}
        \cup {[ok |-> FALSE, logs |-> <<>>]}

NoResult == [kind |-> NoValue, events |-> <<>>]

\* filter.query().await? and the decoding of the records it returned
FetchResult(reply) ==
    IF ~reply.ok THEN [kind |-> "Err", events |-> <<>>]
    ELSE IF \E i \in 1..Len(reply.logs) : ~FitsUsize(reply.logs[i].leaf_index)
    THEN [kind |-> "panic", events |-> <<>>]
    ELSE [kind |-> "Ok", events |-> Insertions(reply.logs)]

QueryReturns ==
    /\ fpc = "query"
    /\ \E reply \in QueryReplies :
          /\ freply' = reply
          /\ fres' = FetchResult(reply)
    /\ fpc' = "done"
    /\ UNCHANGED <<relayVars, mock, eip1559, built, remoteNonce, nonce, ipc, icommit,
                   inonce, ires, ihandle, handed, io, fstart, fquery>>

NextInsert ==
    \/ NewGetChainId
    \/ NewGetBlockNumber
    \/ NewProviderStack
    \/ \E t \in Calls, c \in Commitments : InsertIdentity(t, c)
    \/ \E t \in Calls : SignTransaction(t)
    \/ \E t \in Calls : Broadcast(t)
    \/ \E t \in Calls : AwaitInclusion(t)

SpecInsert == InitEthereum /\ [][NextInsert]_vars

NextEvents ==
    \/ NewGetChainId
    \/ NewGetBlockNumber
    \/ NewProviderStack
    \/ \E b \in Blocks : FetchEvents(b)
    \/ QueryReturns

SpecEvents == InitEthereum /\ [][NextEvents]_vars

\* Mock mode: the operations of an Ethereum built with mock = true.
InitMock == InitEthereum /\ mock

NextMock ==
    \/ NewGetChainId
    \/ NewGetBlockNumber
    \/ NewProviderStack
    \/ \E t \in Calls, c \in Commitments : InsertIdentity(t, c)
    \/ \E b \in Blocks : FetchEvents(b)

SpecMock == InitMock /\ [][NextMock]_vars

\* ================================================================ claims
\* ------------------------------------------------ direct backend (mod.rs)

\* Calls whose transaction has a nonce.
Reserved == {c \in Calls : ipc[c] \in {"broadcast", "pending_tx"}
                             \/ (ipc[c] = "done" /\ ~mock)}

\* Calls whose transaction has been handed to the network layer.
Sent == {c \in Calls : ipc[c] = "pending_tx" \/ (ipc[c] = "done" /\ ~mock)}

HandedNonces == {handed[i].nonce : i \in 1..Len(handed)}

HandedBy(c) == {i \in 1..Len(handed) : handed[i].by = c}

\* C3. Nonce uniqueness: the nonces of the transactions of the k direct
\* submissions that have reserved one are exactly start .. start+k-1, no two
\* transactions share a nonce, and once all N calls have broadcast, the
\* nonces on the broadcast transactions are exactly start .. start+N-1.
NonceUniqueness ==
    /\ \A a, b \in Reserved : a # b => inonce[a] # inonce[b]
    /\ {inonce[c] : c \in Reserved}
         = remoteNonce .. (remoteNonce + Cardinality(Reserved) - 1)
    /\ \A i, j \in 1..Len(handed) : i # j => handed[i].nonce # handed[j].nonce
    /\ HandedNonces = {inonce[c] : c \in Sent}
    /\ Sent = Calls => HandedNonces = remoteNonce .. (remoteNonce + NumCalls - 1)

\* C3 witness: every call has broadcast its transaction, and two of them
\* held their nonces at the same time.
NonceUniquenessWitness ==
    /\ ~mock
    /\ Sent = Calls
    /\ Len(handed) = NumCalls
    /\ \E i \in 1..Len(handed) : \E j \in 1..Len(handed) :
          i < j /\ handed[i].nonce > handed[j].nonce

\* C6. Mock mode: insert_identity always returns Ok and fetch_events always
\* returns the empty sequence, whatever the input, and neither makes a network
\* round trip: no nonce is reserved, nothing is broadcast, no log is queried.
MockMode ==
    mock =>
        /\ \A c \in Calls : /\ ipc[c] \in {"idle", "done"}
                            /\ ipc[c] = "done" => ires[c] = "Ok"
                            /\ ihandle[c] = NoValue
        /\ fpc \in {"idle", "done"}
        /\ fpc = "done" => fres = [kind |-> "Ok", events |-> <<>>]
        /\ \A r \in io : r.by = "new"
        /\ handed = <<>>
        /\ fquery = <<>>
        /\ built = "ready" => nonce = remoteNonce

\* C6 witness: in mock mode every call has returned, with different inputs.
MockModeWitness ==
    /\ mock
    /\ \A c \in Calls : ipc[c] = "done"
    /\ \E a, b \in Calls : icommit[a] # icommit[b]
    /\ fpc = "done"
    /\ fstart > 0

\* C8. Nonce reservation: the counter starts at the remote account nonce
\* when the pipeline is built; each non-mock insert_identity call advances it
\* by exactly one, before its broadcast, and hands exactly one transaction to
\* the network layer, also when the broadcast or the inclusion fails; the
\* counter never decreases and no nonce is on two transactions.
NonceReservationState ==
    /\ built = "signer" \/ built = "get_chainid" \/ built = "get_block_number"
          \/ built = "failed" => nonce = 0 /\ \A c \in Calls : ipc[c] = "idle"
    /\ built = "ready" => nonce = remoteNonce + Cardinality(Reserved)
    /\ \A c \in Calls :
          /\ Cardinality(HandedBy(c)) = IF c \in Sent THEN 1 ELSE 0
          /\ \A i \in HandedBy(c) : handed[i].nonce = inonce[c]
    /\ \A i \in 1..Len(handed) : handed[i].nonce < nonce
    /\ \A i, j \in 1..Len(handed) : i # j => handed[i].nonce # handed[j].nonce

NonceReservationStep ==
    /\ built = "ready" => nonce' >= nonce
    /\ \A c \in Calls :
          ipc[c] = "broadcast" /\ ipc'[c] # "broadcast" =>
              /\ Len(handed') = Len(handed) + 1
              /\ nonce' = nonce

NonceReservation == []NonceReservationState /\ [][NonceReservationStep]_vars

\* C8 witness: a call whose broadcast faulted still took its nonce, and a
\* later call got the next one.
NonceReservationWitness ==
    \E a, b \in Calls :
        /\ ihandle[a] = "broadcast_fault"
        /\ ipc[b] = "pending_tx"
        /\ inonce[b] = inonce[a] + 1
        /\ nonce = remoteNonce + 2

\* C9. Direct backend outcome: a non-mock insert_identity returns Ok only if
\* the pending transaction resolved with a receipt, fails with Dropped if it
\* resolved with no receipt, and fails with the propagated error on a fault in
\* the broadcast or while awaiting inclusion; there is no other outcome.
DirectOutcome ==
    \A c \in Calls :
        ipc[c] = "done" /\ ~mock =>
            /\ ires[c] \in {"Ok", "Dropped", "SendFailed"}
            /\ ires[c] = "Ok" <=> ihandle[c] = "receipt"
            /\ ires[c] = "Dropped" <=> ihandle[c] = "no_receipt"
            /\ ires[c] = "SendFailed" <=> ihandle[c] \in {"fault", "broadcast_fault"}

\* C9 witness: the three outcomes after a broadcast, side by side.
DirectOutcomeWitness ==
    /\ ~mock
    /\ \E a, b \in Calls : /\ ipc[a] = "done" /\ ihandle[a] = "no_receipt"
                           /\ ipc[b] = "done" /\ ihandle[b] = "fault"

\* ---------------------------------------------- event ingestion (mod.rs)

\* What fetch_events has to return for the records the query returned.
QueriedOnce ==
    /\ Len(fquery) = 1
    /\ fquery[1] = [from_block |-> fstart, to_block |-> NoValue]

\* C10 as stated: one query from fromBlock with no upper bound, and one event
\* per log record, same order and count, carrying the record's leafIndex and
\* its leaf as the commitment.
EventsCarryLeaf ==
    fpc = "done" /\ ~mock =>
        /\ QueriedOnce
        /\ freply.ok =>
              /\ fres.kind = "Ok"
              /\ Len(fres.events) = Len(freply.logs)
              /\ \A i \in 1..Len(freply.logs) :
                    /\ fres.events[i].leaf_index = freply.logs[i].leaf_index
                    /\ fres.events[i].commitment = freply.logs[i].leaf

\* C10 amended: as above, but the commitment is the leaf reduced modulo the
\* field order (the leaf itself when it is below the order), and the call
\* panics when a leafIndex does not fit usize.
EventsCarryReducedLeaf ==
    fpc = "done" /\ ~mock =>
        /\ QueriedOnce
        /\ freply.ok /\ (\A i \in 1..Len(freply.logs) :
                             freply.logs[i].leaf_index <= UsizeMax) =>
              /\ fres.kind = "Ok"
              /\ Len(fres.events) = Len(freply.logs)
              /\ \A i \in 1..Len(freply.logs) :
                    /\ fres.events[i].leaf_index = freply.logs[i].leaf_index
                    /\ fres.events[i].commitment = freply.logs[i].leaf % FieldOrder
                    /\ freply.logs[i].leaf < FieldOrder =>
                          fres.events[i].commitment = freply.logs[i].leaf
        /\ freply.ok /\ (\E i \in 1..Len(freply.logs) :
                             freply.logs[i].leaf_index > UsizeMax) =>
              fres.kind = "panic"

\* C10 witness: two records, the second with the smaller index and a leaf
\* at or above the field order, decoded in the order they came.
EventsCarryReducedLeafWitness ==
    /\ fpc = "done" /\ ~mock /\ freply.ok /\ fres.kind = "Ok"
    /\ Len(freply.logs) = 2
    /\ freply.logs[1].leaf_index > freply.logs[2].leaf_index
    /\ freply.logs[2].leaf >= FieldOrder
    /\ freply.logs[1].leaf = 1
    /\ fstart > 0

\* ------------------------------------------- relay backend (openzeppelin.rs)

\* The transactions the relay listed to call p that carry p's payload.
ListedWithPayload(p) ==
    {i \in 1..send[p].listed :
        send[p].data.some /\ jobs[i].data = send[p].data}

\* C1: a call with is_retry to which the relay listed a transaction carrying
\* the call's payload never issues a creation request: no POST of the call is
\* or was in flight, no transaction of the relay comes from it, and it is
\* querying the status of the listed transaction with that payload.
RetryDeduplication ==
    \A p \in Sends :
        send[p].is_retry /\ ListedWithPayload(p) # {} =>
            /\ send[p].post = NoValue
            /\ \A i \in 1..Len(jobs) : jobs[i].by # p
            /\ send[p].op = "query"
            /\ \E i \in ListedWithPayload(p) :
                  /\ send[p].tx_id = jobs[i].transaction_id
                  /\ \A j \in ListedWithPayload(p) : i <= j

\* C1 witness: a retry is waiting for the status of the transaction another
\* call created with the same payload, having sent no creation request.
RetryDeduplicationWitness ==
    \E p \in Sends :
        /\ send[p].is_retry
        /\ send[p].pc = "http"
        /\ send[p].op = "query"
        /\ send[p].post = NoValue
        /\ ListedWithPayload(p) # {}
        /\ \E i \in ListedWithPayload(p) :
              jobs[i].by # p /\ send[p].tx_id = jobs[i].transaction_id

\* The validity window of a successful exchange: from the instant its call
\* read the clock to expires_in seconds later.
InWindow(now, x) ==
    x.result = "ok" /\ x.now <= now /\ now < x.now + x.expires_in

\* C2: no authentication exchange is started for a get_client call that falls
\* inside the validity window of an earlier exchange with the same api key,
\* so one window sees one exchange; and a client in a call's hands is the one
\* a successful exchange for the call's api key put in the cache.
CredentialCacheReuse ==
    /\ \A i, j \in 1..Len(exchanges) :
          i < j /\ exchanges[i].api_key = exchanges[j].api_key =>
              ~InWindow(exchanges[j].now, exchanges[i])
    /\ \A p \in Sends :
          send[p].client # 0 =>
              /\ send[p].client \in 1..Len(exchanges)
              /\ exchanges[send[p].client].result = "ok"
              /\ exchanges[send[p].client].api_key = send[p].api_key

\* C2 witness: two calls with the same api key, one of them already past its
\* creation request and querying, both hold the client of the only exchange.
CredentialCacheReuseWitness ==
    /\ Len(exchanges) = 1
    /\ \A p \in Sends : send[p].pc = "http" /\ send[p].client = 1
    /\ \E p \in Sends : send[p].op = "query"
    /\ \E p \in Sends : send[p].op = "send"

\* C4: mine_transaction_id returns a record only with the status mined,
\* confirmed or failed, which is the status of the last query; every status
\* queried before the last one was none of the three, so the return is at the
\* first terminal status; and a call that has seen a terminal status has
\* returned, so no query follows it.
PollingTerminalConvergence ==
    \A p \in Sends :
        LET seen == send[p].seen
            n == Len(seen)
        IN /\ send[p].mined # NoValue =>
                 /\ send[p].mined \in {"mined", "confirmed", "failed"}
                 /\ n > 0
                 /\ send[p].mined = seen[n]
           /\ \A i \in 1..(n - 1) : seen[i] \notin {"mined", "confirmed", "failed"}
           /\ n > 0 /\ seen[n] \in {"mined", "confirmed", "failed"} =>
                 /\ send[p].pc = "done"
                 /\ send[p].mined = seen[n]
                 /\ send[p].res = "Receipt"

\* C4 witness: the statuses pending, confirmed in this order; the call
\* returned after the second query with confirmed.
PollingTerminalConvergenceWitness ==
    \E p \in Sends :
        /\ send[p].pc = "done"
        /\ send[p].seen = <<"pending", "confirmed">>
        /\ send[p].mined = "confirmed"

\* C5: a call whose send_oz_transaction (the creation step, with the token
\* exchange it may start) is still unfinished when send_timeout has passed
\* leaves it with SendTimeout and with nothing else, and the result of a call
\* that has returned does not change, whatever the relay then does with its
\* creation request.
TimeoutClassificationStep ==
    \A p \in Sends :
        /\ (/\ send[p].op = "send"
            /\ send[p].pc \in {"lock", "auth", "http"}
            /\ clock >= send[p].deadline
            /\ send'[p] # send[p])
              => send'[p].pc = "done" /\ send'[p].res = "SendTimeout"
        /\ send[p].pc = "done" =>
              send'[p].pc = "done" /\ send'[p].res = send[p].res

TimeoutClassification == [][TimeoutClassificationStep]_vars

\* C5 witness: a call returned SendTimeout, and the relay has since accepted
\* its creation request.
TimeoutClassificationWitness ==
    \E p \in Sends :
        /\ send[p].pc = "done"
        /\ send[p].res = "SendTimeout"
        /\ send[p].post = "handled"
        /\ \E i \in 1..Len(jobs) : jobs[i].by = p

\* The results that leave the caller not knowing whether the relay has the
\* transaction.
Ambiguous == {"SendTimeout", "Send(Authentication)", "Send(UnknownResponse)"}

\* The transactions of the relay carrying the payload of call p.
JobsWithPayload(p) == {i \in 1..Len(jobs) : jobs[i].data = send[p].data}

\* C7: when a call without is_retry ended ambiguously and a call with
\* is_retry and the same payload was made after it returned, the relay never
\* holds two transactions with that payload.
NoDoubleSubmission ==
    \A p, q \in Sends :
        (/\ p # q
         /\ ~send[p].is_retry /\ send[p].pc = "done" /\ send[p].res \in Ambiguous
         /\ send[q].is_retry /\ p \in send[q].prior
         /\ send[p].data.some /\ send[q].data = send[p].data)
            => Cardinality(JobsWithPayload(p)) <= 1

\* C7 witness: such a retry listed the relay's transactions, found none with
\* the payload and sent its own creation request.
NoDoubleSubmissionWitness ==
    \E p, q \in Sends :
        /\ p # q
        /\ ~send[p].is_retry /\ send[p].pc = "done" /\ send[p].res = "SendTimeout"
        /\ send[q].is_retry /\ p \in send[q].prior
        /\ send[p].data.some /\ send[q].data = send[p].data
        /\ send[q].listed = 0
        /\ send[q].post = "inflight"

\* A step in which get_client hands call p the client it found in the cache:
\* the call gets to its request with a client and no exchange was closed.
HandedCached(p) ==
    /\ send[p].pc # "http"
    /\ send'[p].pc = "http"
    /\ send'[p].client # 0
    /\ exchanges' = exchanges

\* C11: whenever get_client hands out a cached client, the entry is unexpired
\* at that moment: the time of the lookup is before its expiration_time, also
\* for a caller that waited for the lock during another caller's exchange.
ExpiryCheckStep ==
    \A p \in Sends :
        HandedCached(p) => clock < clients[send'[p].api_key].expiration_time

ExpiryCheck == [][ExpiryCheckStep]_vars

\* C11 witness: a call read the clock, then waited for the lock while another
\* call was authenticating; by now the entry of its key has expired, but not
\* by the reading it carries.
ExpiryCheckWitness ==
    \E p, q \in Sends :
        /\ p # q
        /\ send[p].pc = "lock"
        /\ send[q].pc = "auth" /\ lock = q
        /\ TokenValid(clients[send[p].api_key], send[p].now)
        /\ clock >= clients[send[p].api_key].expiration_time

\* C12: send_transaction returns a receipt only for a transaction whose
\* terminal status is mined or confirmed, on the path of a new transaction
\* and on the path of a retry that found its transaction listed; a failed
\* transaction gives an error.
ReceiptMeansSuccess ==
    \A p \in Sends :
        send[p].res = "Receipt" => send[p].mined \in {"mined", "confirmed"}

\* C12 witness: on both paths a call has returned from polling a transaction
\* that ended failed: one call created it, the other is a retry that sent no
\* creation request.
ReceiptMeansSuccessWitness ==
    \E p, q \in Sends :
        /\ ~send[p].is_retry /\ send[p].post = "handled"
        /\ send[p].pc = "done" /\ send[p].mined = "failed"
        /\ send[q].is_retry /\ send[q].post = NoValue
        /\ send[q].pc = "done" /\ send[q].mined = "failed"

\* Call p has its id from the creation request and is in the first status
\* query of its transaction, with send_timeout run out.
FirstStatusOverdue(p) ==
    /\ send[p].op = "query"
    /\ send[p].post = "handled"
    /\ send[p].seen = <<>>
    /\ send[p].pc \in {"lock", "auth", "http"}
    /\ clock >= send[p].deadline

\* C13 as stated: the send timeout covers the path from the creation request
\* through the first status observation, so a call whose first status query
\* is unfinished when the timeout has run out leaves it with SendTimeout.
TimeoutCoversFirstStatusStep ==
    \A p \in Sends :
        FirstStatusOverdue(p) /\ send'[p] # send[p] =>
            send'[p].pc = "done" /\ send'[p].res = "SendTimeout"

TimeoutCoversFirstStatus == [][TimeoutCoversFirstStatusStep]_vars

\* C13 amended: the send timeout covers the creation step only.  SendTimeout
\* is returned only from inside send_oz_transaction at or after the deadline;
\* a call whose first status query is unfinished when the timeout has run
\* out goes on with the query and never gets SendTimeout from it.
TimeoutCoversCreationOnlyStep ==
    \A p \in Sends :
        /\ send'[p].res = "SendTimeout" /\ send[p].res # "SendTimeout" =>
              /\ send[p].op = "send"
              /\ clock >= send[p].deadline
        /\ FirstStatusOverdue(p) /\ send'[p] # send[p] =>
              /\ send'[p].res # "SendTimeout"
              /\ send'[p].pc = "done" =>
                    send'[p].res \in {"Receipt", "Dropped", "Send(Authentication)",
                                      "Send(UnknownResponse)"}

TimeoutCoversCreationOnly == [][TimeoutCoversCreationOnlyStep]_vars

\* C13 amended, witness: a call got its id before the deadline and its first
\* status query is still unanswered after it.
TimeoutCoversCreationOnlyWitness ==
    \E p \in Sends :
        /\ FirstStatusOverdue(p)
        /\ send[p].pc = "http"
        /\ send[p].deadline = SendTimeoutSecs

\* Call p has an id, from the creation response or from the listed match,
\* and is in mine_transaction_id.
Polling(p) == send[p].op = "query"

\* C14: a call that has an id never returns SendTimeout.  It returns only
\* from a status query: with the receipt when the status is terminal, with
\* the error when the query gave no usable record (get_client or the request
\* failed, the body did not parse, the record had no status).  A status that
\* is not terminal always leads to the sleep and from there to another query,
\* however many came before and however late it is.
UnboundedPollingStep ==
    \A p \in Sends :
        Polling(p) /\ send'[p] # send[p] =>
            /\ send'[p].res # "SendTimeout"
            /\ send'[p].pc = "done" =>
                  /\ send[p].pc \in {"auth", "http"}
                  /\ \/ /\ send'[p].res = "Receipt"
                        /\ send'[p].mined \in {"mined", "confirmed", "failed"}
                     \/ send'[p].res \in {"Send(Authentication)",
                                         "Send(UnknownResponse)", "Dropped"}
            /\ send'[p].pc # "done" => Polling(p)'
            /\ send'[p].seen # send[p].seen
                  /\ send'[p].seen[Len(send'[p].seen)] = "pending" =>
                        send'[p].pc = "sleep"
            /\ send[p].pc = "sleep" => send'[p].pc \in {"lock", "auth", "http"}

UnboundedPolling == [][UnboundedPollingStep]_vars

\* C14 witness: a retry that found its transaction listed saw it pending and
\* is querying again, with the send timeout's length gone by.
UnboundedPollingWitness ==
    \E p \in Sends :
        /\ send[p].is_retry /\ send[p].post = NoValue
        /\ Polling(p)
        /\ send[p].pc = "http"
        /\ send[p].seen = <<"pending">>
        /\ clock >= SendTimeoutSecs

\* C15: no call of the relay's send_transaction returns Dropped, whatever
\* records and statuses the relay reports, a record without status included.
DroppedOnlyDirect ==
    \A p \in Sends : send[p].res # "Dropped"

\* C15 witness: the relay reported the transaction pending and then sent a
\* record without status, and the call has returned.
DroppedOnlyDirectWitness ==
    \E p \in Sends :
        /\ send[p].pc = "done"
        /\ send[p].seen = <<"pending", NoValue>>

\* The transactions the relay created from requests of call p.
CreatedBy(p) == {i \in 1..Len(jobs) : jobs[i].by = p}

\* Call p is on the path of a new transaction: it is not a retry, or it is
\* one and the list it got has no transaction with its payload.
NewJobPath(p) ==
    /\ send[p].pc \notin {"idle", "done"}
    /\ \/ ~send[p].is_retry
       \/ send[p].listed >= 0 /\ ListedWithPayload(p) = {}

\* C16: a call that is not a retry never lists the relay's transactions.  On
\* the path of a new transaction a call sends its creation request once it
\* has a client, and only once; the request carries the caller's to, value
\* and data and the gas limit 1,000,000 in place of the caller's; and the
\* call then polls the id the relay gave to the transaction of that request.
NewJob ==
    \A p \in Sends :
        /\ ~send[p].is_retry => send[p].op # "list" /\ send[p].listed = -1
        /\ Cardinality(CreatedBy(p)) <= 1
        /\ \A i \in CreatedBy(p) :
              /\ jobs[i].to = "identity_manager"
              /\ jobs[i].value = 0
              /\ jobs[i].data = send[p].data
              /\ jobs[i].gas_limit = 1000000
        /\ NewJobPath(p) =>
              /\ send[p].op \in {"send", "query"}
              /\ send[p].op = "send" /\ send[p].pc = "http" => send[p].post = "inflight"
              /\ send[p].op = "send" /\ send[p].pc # "http" =>
                    send[p].post = NoValue /\ CreatedBy(p) = {}
              /\ send[p].op = "query" =>
                    /\ send[p].post = "handled"
                    /\ \E i \in CreatedBy(p) : send[p].tx_id = jobs[i].transaction_id

\* C16 witness: a retry listed a transaction with another payload, sent its
\* own creation request and is polling the id of the transaction it created.
NewJobWitness ==
    \E p \in Sends :
        /\ send[p].is_retry
        /\ send[p].listed = 1
        /\ NewJobPath(p)
        /\ send[p].op = "query" /\ send[p].pc = "http"
        /\ \E i \in CreatedBy(p) : i = 2 /\ send[p].tx_id = 2

\* How many of the calls in S carry the label l.
Labelled(S, l) == Cardinality({p \in S : Bytes4(send[p].data) = l})

\* C17 as stated: every call of send_transaction, retry or not, increments
\* the counter of its label exactly once: when all calls made have returned,
\* each counter holds the number of calls with its label.
CountsEveryCall ==
    (\A p \in Sends : send[p].pc \in {"idle", "done"}) =>
        \A l \in Labels : tx_count[l] = Labelled(Returned, l)

\* The calls that start their creation step (send_oz_transaction) in this
\* step.
StartingCreation ==
    {p \in Sends : send[p].op # "send" /\ send'[p].op = "send"}

\* C17 amended: the counter of a call's label is incremented exactly once by
\* every call that goes on to the creation step (not a retry, or a retry
\* whose list has no transaction with its payload), before the creation
\* request and whatever happens to it later; a retry that finds its
\* transaction listed, or whose listing fails, increments nothing.  Nothing
\* else changes a counter, so counters only grow and no increment is lost.
CountsCreationsStep ==
    \A l \in Labels :
        tx_count'[l] = tx_count[l]
            + Cardinality({p \in StartingCreation : Bytes4(send'[p].data) = l})

CountsCreations == [][CountsCreationsStep]_vars

\* C17 amended, witness: two calls with the same label have returned, a first
\* attempt that timed out and a retry that found the transaction listed and
\* polled it; the counter of the label stands at one.
CountsCreationsWitness ==
    \E p, q \in Sends :
        /\ send[p].pc = "done" /\ ~send[p].is_retry /\ send[p].res = "SendTimeout"
        /\ send[q].pc = "done" /\ send[q].is_retry /\ send[q].post = NoValue
        /\ send[q].res = "Receipt"
        /\ send[p].data.some /\ send[q].data = send[p].data
        /\ tx_count[Bytes4(send[p].data)] = 1

\* The creation request of call p is answered in this step.
Answered(p) == send[p].reply = NoValue /\ send'[p].reply # NoValue

\* The call has the id of the transaction its request created and goes on to
\* query its status.
Captured(p) ==
    /\ send'[p].op = "query"
    /\ send'[p].pc # "done"
    /\ \E i \in 1..Len(jobs') :
          jobs'[i].by = p /\ send'[p].tx_id = jobs'[i].transaction_id

\* The creation step fails with the error and the call returns without a
\* status query.
FailedWith(p, error) ==
    /\ send'[p].pc = "done"
    /\ send'[p].res = error
    /\ send'[p].seen = <<>>

\* C18 as stated: an answer with a success status and the transactionId is
\* captured and polled; an answer with a non-success status fails the
\* creation step with Authentication, without polling.
CreationResponseStep ==
    \A p \in Sends :
        Answered(p) =>
            /\ send'[p].reply \in {"ok", "accepted_not_ok"} => Captured(p)
            /\ send'[p].reply = "rejected" => FailedWith(p, "Send(Authentication)")

CreationResponseOkOnlyStep ==
    \A p \in Sends :
        Answered(p) =>
            /\ send'[p].reply = "ok" => Captured(p)
            /\ send'[p].reply \in {"ok_garbled", "ok_no_id"} =>
                  FailedWith(p, "Send(UnknownResponse)")
            /\ send'[p].reply \in {"accepted_not_ok", "rejected"} =>
                  FailedWith(p, "Send(Authentication)")

RefreshFails(p) ==
    /\ send[p].pc = "auth"
    /\ Len(exchanges') = Len(exchanges)
    /\ exchanges'[Len(exchanges)].result = "failed"

\* The last exchange for the api key, 0 when there was none.
LastExchange(api_key) ==
    LET mine == {i \in 1..Len(exchanges) : exchanges[i].api_key = api_key}
    IN IF mine = {} THEN 0 ELSE CHOOSE i \in mine : \A j \in mine : j <= i

\* The reading of the clock with which call p looks the cache up in this
\* step: the one it took before waiting for the lock, or the present one.
LookupNow(p) == IF send[p].pc = "lock" THEN send[p].now ELSE clock

\* C19: when the exchange in get_client fails, the call returns the error,
\* the cache is what it was before the call (an expired entry stays, none is
\* added) and the lock is free again; and as long as the last exchange for a
\* key is a failed one, no get_client call that reads the clock after it gets
\* a client from the cache: it starts a fresh exchange.
FailedRefreshStep ==
    \A p \in Sends :
        /\ RefreshFails(p) =>
              /\ clients' = clients
              /\ lock = p /\ lock' = NoValue
              /\ send'[p].pc = "done"
              /\ send'[p].res = "Send(Authentication)"
        /\ HandedCached(p) =>
              LET last == LastExchange(send'[p].api_key)
              IN last # 0 /\ exchanges[last].result = "failed" =>
                    LookupNow(p) < exchanges[last].now

FailedRefresh == [][FailedRefreshStep]_vars

\* C19 witness: the entry of a key had expired, the refresh failed, the call
\* has returned the error; the expired entry is still the key's entry and the
\* lock is free.
FailedRefreshWitness ==
    /\ Len(exchanges) = 2
    /\ exchanges[1].result = "ok"
    /\ exchanges[2].result = "failed"
    /\ exchanges[2].api_key = exchanges[1].api_key
    /\ clients[exchanges[1].api_key].client = 1
    /\ clients[exchanges[1].api_key].expiration_time <= exchanges[2].now
    /\ lock = NoValue
    /\ \E p \in Sends : send[p].pc = "done" /\ send[p].res = "Send(Authentication)"

\* The exchanges in flight.
InFlight == {i \in 1..Len(exchanges) : exchanges[i].result = "pending"}

\* The successful exchanges for the api key.
Refreshes(api_key) ==
    {i \in 1..Len(exchanges) :
        exchanges[i].api_key = api_key /\ exchanges[i].result = "ok"}

\* C20: the lock is held from the lookup to the insert: a call awaiting its
\* exchange holds the lock, the lock is held by nobody else, and so at most
\* one exchange is in flight at any time, whatever the api keys; the cache has
\* one entry per api key, none before the key's first successful exchange and
\* afterwards the entry of its latest one, which replaced the one before.
SingleCriticalSection ==
    /\ Cardinality(InFlight) <= 1
    /\ \A i \in InFlight : i = Len(exchanges)
    /\ \A p \in Sends : send[p].pc = "auth" => lock = p /\ InFlight # {}
    /\ lock # NoValue => send[lock].pc = "auth"
    /\ InFlight # {} => lock # NoValue
    /\ \A k \in ApiKeys :
          IF Refreshes(k) = {}
          THEN clients[k] = NoEntry
          ELSE LET i == CHOOSE i \in Refreshes(k) : \A j \in Refreshes(k) : j <= i
               IN clients[k] = [client |-> i,
                                expiration_time |->
                                    exchanges[i].now + exchanges[i].expires_in]

\* C20 witness: one call is awaiting the exchange for its key and holds the
\* lock; the other call, with another key that has no entry, waits for the
\* lock before it can start its own exchange.
SingleCriticalSectionWitness ==
    \E p, q \in Sends :
        /\ send[p].pc = "auth" /\ lock = p
        /\ send[q].pc = "lock"
        /\ send[q].api_key # send[p].api_key
        /\ clients[send[q].api_key] = NoEntry
        /\ Cardinality(InFlight) = 1

====
